---- MODULE Spec2Model ----
(***************************************************************************)
(* Model of proteinindex.py: a Streamlit script that filters the protein   *)
(* table with three sidebar widgets, renders table / chart / key insights, *)
(* and on the Global Maps tab selects GRFC rows by data type and year and  *)
(* shows optional static maps.  Streamlit re-executes the whole script on  *)
(* every widget change, so every action below is one complete script run.  *)
(*                                                                         *)
(* Numbers: Protein Index values are integers as in the source.  Costs are *)
(* held in hundredths of a dollar (0.4 -> 40, slider 0.10..1.00 step 0.05  *)
(* -> 10..100 step 5); GRFC figures are held in tenths.  A mean is the     *)
(* exact fraction [num, den].  Row labels (idx) are the pandas index       *)
(* labels 0..n-1, which boolean-mask selection keeps.                      *)
(***************************************************************************)
EXTENDS Integers, Sequences, FiniteSets, TLC

VARIABLES data, regions, min_index, max_index, max_cost,
          grfc_data_type, selected_grfc_year,
          show_ghi, show_gfsi, show_technoserve_new,
          filtered_data, table_view, chart_view, insights, error,
          filtered_grfc_data, grfc_view, static_maps,
          phase, reruns

widgets == <<regions, min_index, max_index, max_cost, grfc_data_type,
             selected_grfc_year, show_ghi, show_gfsi, show_technoserve_new>>

outputs == <<filtered_data, table_view, chart_view, insights, error,
             filtered_grfc_data, grfc_view, static_maps>>

vars == <<data, widgets, outputs, phase, reruns>>

(***************************************************************************)
(* Bounds of the model.                                                    *)
(***************************************************************************)
MaxReruns == 3
MaxLen == 3

(***************************************************************************)
(* The data tables of the script.                                          *)
(***************************************************************************)
FoodNames == <<"Lentils", "Chicken", "Soy", "Milk", "Egg", "Fish", "Beef", "Quinoa">>

Row(i, food, pi, cost, region) ==
    [idx |-> i, Food |-> food, PI |-> pi, Cost |-> cost, Region |-> region]

ShippedData ==
    << Row(0, "Lentils", 78, 40, "Asia"),
       Row(1, "Chicken", 85, 70, "US"),
       Row(2, "Soy",     92, 50, "Asia"),
       Row(3, "Milk",    50, 60, "Europe"),
       Row(4, "Egg",     88, 45, "US"),
       Row(5, "Fish",    82, 65, "Europe"),
       Row(6, "Beef",    75, 90, "US"),
       Row(7, "Quinoa",  90, 55, "Asia") >>

GrfcYears == <<2016, 2017, 2018, 2019, 2020, 2021, 2022, 2023>>

AfiMillions == <<109, 106, 113, 131, 142, 188, 170, 153,
                 12, 13, 14, 15, 16, 17, 18, 19>>
AfiPercent  == <<347, 337, 349, 395, 416, 526, 465, 405,
                 279, 293, 307, 318, 330, 342, 355, 368>>
MyuGam == <<125, 130, 135, 140, 145, 150, 155, 160,
            100, 102, 104, 106, 108, 110, 112, 114>>
MyuSam == <<30, 32, 34, 36, 38, 40, 42, 44,
            25, 26, 27, 28, 29, 30, 31, 32>>

GrfcIso(i) == IF i <= 8 THEN "AFG" ELSE "CAF"
GrfcCountry(i) == IF i <= 8 THEN "Afghanistan" ELSE "Central African Republic"
GrfcYearOf(i) == GrfcYears[((i - 1) % 8) + 1]

grfc_afi_data ==
    [i \in 1..16 |-> [idx |-> i - 1, Year |-> GrfcYearOf(i), ISO3 |-> GrfcIso(i),
                      Country |-> GrfcCountry(i),
                      Millions |-> AfiMillions[i], Percent |-> AfiPercent[i]]]

grfc_myu_data ==
    [i \in 1..16 |-> [idx |-> i - 1, Year |-> GrfcYearOf(i), ISO3 |-> GrfcIso(i),
                      Country |-> GrfcCountry(i),
                      Millions |-> AfiMillions[i],
                      GAM |-> MyuGam[i], SAM |-> MyuSam[i]]]

SetMin(S) == CHOOSE x \in S : \A y \in S : x <= y
SetMax(S) == CHOOSE x \in S : \A y \in S : x >= y

all_grfc_years ==
    {grfc_afi_data[i].Year : i \in 1..Len(grfc_afi_data)}
        \cup {grfc_myu_data[i].Year : i \in 1..Len(grfc_myu_data)}
min_grfc_year == SetMin(all_grfc_years)
max_grfc_year == SetMax(all_grfc_years)

(***************************************************************************)
(* Widget domains and defaults.                                            *)
(***************************************************************************)
RegionOptions(d) == {d[i].Region : i \in 1..Len(d)}
DefaultRegions(d) == RegionOptions(d)

IndexSliderValues == {5 * k : k \in 0..20}
DefaultMinIndex == 70
DefaultMaxIndex == 100

CostSliderValues == {10 + 5 * k : k \in 0..18}
DefaultMaxCost == 70

TypeAFI == "Acute Food Insecurity (Phase 3-5 %)"
TypeGAM == "Malnutrition (GAM Prevalence %)"
GrfcDataTypes == {TypeAFI, TypeGAM}

YearSliderValues == min_grfc_year..max_grfc_year

(***************************************************************************)
(* The protein filter, lines 186-190.                                      *)
(***************************************************************************)
isin(x, S) == x \in S

\* Variant of between with both bounds exclusive.
between_exclusive(x, left, right) == left < x /\ x < right

between(x, left, right) == left <= x /\ x <= right

RowPasses(r, regs, lo, hi, mc) ==
    /\ isin(r.Region, regs)
    /\ between(r.PI, lo, hi)
    /\ r.Cost <= mc

\* Variant of FilterData that returns the surviving rows last-first.
FilterData_reversed(d, regs, lo, hi, mc) ==
    LET kept == SelectSeq(d, LAMBDA r : RowPasses(r, regs, lo, hi, mc))
    IN  [k \in 1..Len(kept) |-> kept[Len(kept) + 1 - k]]

FilterData(d, regs, lo, hi, mc) ==
    SelectSeq(d, LAMBDA r : RowPasses(r, regs, lo, hi, mc))

empty(s) == Len(s) = 0

(***************************************************************************)
(* pandas Series helpers used by the Key Insights block.  A Series is the  *)
(* sequence of [idx, val] pairs of one column of a frame.                  *)
(***************************************************************************)
PISeries(fd) == [k \in 1..Len(fd) |-> [idx |-> fd[k].idx, val |-> fd[k].PI]]
CostSeries(fd) == [k \in 1..Len(fd) |-> [idx |-> fd[k].idx, val |-> fd[k].Cost]]

RECURSIVE SeriesSum(_)
SeriesSum(s) == IF Len(s) = 0 THEN 0 ELSE s[1].val + SeriesSum(Tail(s))

\* Series.mean() of a non-empty Series, as the exact fraction sum / count.
mean(s) == [num |-> SeriesSum(s), den |-> Len(s)]

\* Variant of idxmin that keeps the last occurrence of the minimum.
idxmin_last(s) ==
    LET best[k \in 1..Len(s)] ==
            IF k = 1 THEN 1
            ELSE IF s[k].val <= s[best[k - 1]].val THEN k ELSE best[k - 1]
    IN  s[best[Len(s)]].idx

\* Series.idxmin(): label of the first occurrence of the minimum.
idxmin(s) ==
    LET best[k \in 1..Len(s)] ==
            IF k = 1 THEN 1
            ELSE IF s[k].val < s[best[k - 1]].val THEN k ELSE best[k - 1]
    IN  s[best[Len(s)]].idx

\* Series.idxmax(): label of the first occurrence of the maximum.
idxmax(s) ==
    LET best[k \in 1..Len(s)] ==
            IF k = 1 THEN 1
            ELSE IF s[k].val > s[best[k - 1]].val THEN k ELSE best[k - 1]
    IN  s[best[Len(s)]].idx

\* DataFrame.loc[label]: the row carrying that index label.
loc(fd, label) == fd[CHOOSE k \in 1..Len(fd) : fd[k].idx = label]

(***************************************************************************)
(* Rendering of the Protein Dashboard tab, lines 192-251.                  *)
(***************************************************************************)
TableView(fd) == IF empty(fd) THEN "warning" ELSE "dataframe"

ChartView(fd) == IF empty(fd) THEN "info" ELSE "scatter"

\* Variant of InsightsBody that counts the filtered rows as the total.
InsightsBody_total(d, fd) ==
    IF empty(fd)
    THEN [kind |-> "ValueError"]
    ELSE [kind |-> "summary",
          total_foods |-> Len(fd),
          displayed_foods |-> Len(fd),
          mean_pi |-> mean(PISeries(fd)),
          mean_cost |-> mean(CostSeries(fd)),
          most_cost_effective |-> loc(fd, idxmin(CostSeries(fd))),
          highest_protein_index |-> loc(fd, idxmax(PISeries(fd)))]

\* Lines 240-251.  idxmin / idxmax of an empty Series raise ValueError, so
\* running this block on an empty frame aborts the script at line 247.
InsightsBody(d, fd) ==
    IF empty(fd)
    THEN [kind |-> "ValueError"]
    ELSE [kind |-> "summary",
          total_foods |-> Len(d),
          displayed_foods |-> Len(fd),
          mean_pi |-> mean(PISeries(fd)),
          mean_cost |-> mean(CostSeries(fd)),
          most_cost_effective |-> loc(fd, idxmin(CostSeries(fd))),
          highest_protein_index |-> loc(fd, idxmax(PISeries(fd)))]

\* Variant of KeyInsights without the emptiness guard.
KeyInsights_unguarded(d, fd) == InsightsBody(d, fd)

\* Lines 236-251: the insights block behind its emptiness guard.
KeyInsights(d, fd) ==
    IF empty(fd) THEN [kind |-> "info"] ELSE InsightsBody(d, fd)

ScriptError(ins) == IF ins.kind = "ValueError" THEN "ValueError" ELSE "none"

(***************************************************************************)
(* Rendering of the Global Maps tab, lines 262-357.                        *)
(***************************************************************************)
GrfcTable(ty) == IF ty = TypeAFI THEN grfc_afi_data ELSE grfc_myu_data

\* Variant of FilterGrfc that keeps every row up to the selected year.
FilterGrfc_upto(ty, yr) == SelectSeq(GrfcTable(ty), LAMBDA r : r.Year <= yr)

FilterGrfc(ty, yr) == SelectSeq(GrfcTable(ty), LAMBDA r : r.Year = yr)

ColorColumn(ty) ==
    IF ty = TypeAFI THEN "Phase 3-5 (%) of population"
                    ELSE "Malnutrition, GAM prevalence (%)"

GrfcView(ty, yr) ==
    IF ~empty(FilterGrfc(ty, yr))
    THEN [kind |-> "choropleth", color_column |-> ColorColumn(ty), year |-> yr]
    ELSE [kind |-> "info", color_column |-> ColorColumn(ty), year |-> yr]

StaticMaps(ghi, gfsi, tech) ==
    (IF ghi THEN {"GHI Score Map"} ELSE {})
    \cup (IF gfsi THEN {"GFSI World Hunger Data"} ELSE {})
    \cup (IF tech THEN {"TechnoServe's Presence in Food Insecure Regions"} ELSE {})

(***************************************************************************)
(* One execution of the script with the given widget values.  The tables   *)
(* are re-created from their literals on every run; nothing is carried     *)
(* over from the previous run except the widget values.                    *)
(***************************************************************************)
\* Variant of FilterSource that narrows the previous run's result.
FilterSource_previous == IF phase = "start" THEN data ELSE filtered_data

\* The frame the boolean mask of line 186 indexes: always the full table.
FilterSource == data

Script(regs, lo, hi, mc, ty, yr, ghi, gfsi, tech) ==
    /\ data' = data
    /\ regions' = regs
    /\ min_index' = lo
    /\ max_index' = hi
    /\ max_cost' = mc
    /\ grfc_data_type' = ty
    /\ selected_grfc_year' = yr
    /\ show_ghi' = ghi
    /\ show_gfsi' = gfsi
    /\ show_technoserve_new' = tech
    /\ filtered_data' = FilterData(FilterSource, regs, lo, hi, mc)
    /\ table_view' = TableView(filtered_data')
    /\ chart_view' = ChartView(filtered_data')
    /\ insights' = KeyInsights(data, filtered_data')
    /\ error' = ScriptError(insights')
    /\ filtered_grfc_data' = FilterGrfc(ty, yr)
    /\ grfc_view' = GrfcView(ty, yr)
    /\ static_maps' = StaticMaps(ghi, gfsi, tech)
    /\ phase' = "rendered"

\* Session state before the first run: nothing rendered yet.
NotRendered ==
    /\ filtered_data = <<>>
    /\ table_view = "none"
    /\ chart_view = "none"
    /\ insights = [kind |-> "none"]
    /\ error = "none"
    /\ filtered_grfc_data = <<>>
    /\ grfc_view = [kind |-> "none"]
    /\ static_maps = {}
    /\ phase = "start"
    /\ reruns = 0

GlobalMapsDefaults ==
    /\ grfc_data_type = TypeAFI
    /\ selected_grfc_year = max_grfc_year
    /\ show_ghi = FALSE
    /\ show_gfsi = FALSE
    /\ show_technoserve_new = FALSE

\* A fresh session of the application: shipped table, widget defaults.
Init ==
    /\ data = ShippedData
    /\ regions = DefaultRegions(data)
    /\ min_index = DefaultMinIndex
    /\ max_index = DefaultMaxIndex
    /\ max_cost = DefaultMaxCost
    /\ GlobalMapsDefaults
    /\ NotRendered

\* The first execution of a session: the script runs with the session's
\* widget values (the defaults, for a fresh session of the application).
FirstLoad ==
    /\ phase = "start"
    /\ Script(regions, min_index, max_index, max_cost, grfc_data_type,
              selected_grfc_year, show_ghi, show_gfsi, show_technoserve_new)
    /\ reruns' = reruns

CanRerun == phase = "rendered" /\ reruns < MaxReruns

SetRegions(regs) ==
    /\ CanRerun
    /\ regs # regions
    /\ Script(regs, min_index, max_index, max_cost, grfc_data_type,
              selected_grfc_year, show_ghi, show_gfsi, show_technoserve_new)
    /\ reruns' = reruns + 1

\* The range slider moves one thumb per interaction; thumbs cannot cross.
SetMinIndex(lo) ==
    /\ CanRerun
    /\ lo # min_index
    /\ lo <= max_index
    /\ Script(regions, lo, max_index, max_cost, grfc_data_type,
              selected_grfc_year, show_ghi, show_gfsi, show_technoserve_new)
    /\ reruns' = reruns + 1

SetMaxIndex(hi) ==
    /\ CanRerun
    /\ hi # max_index
    /\ min_index <= hi
    /\ Script(regions, min_index, hi, max_cost, grfc_data_type,
              selected_grfc_year, show_ghi, show_gfsi, show_technoserve_new)
    /\ reruns' = reruns + 1

SetMaxCost(mc) ==
    /\ CanRerun
    /\ mc # max_cost
    /\ Script(regions, min_index, max_index, mc, grfc_data_type,
              selected_grfc_year, show_ghi, show_gfsi, show_technoserve_new)
    /\ reruns' = reruns + 1

SetGrfcDataType(ty) ==
    /\ CanRerun
    /\ ty # grfc_data_type
    /\ Script(regions, min_index, max_index, max_cost, ty,
              selected_grfc_year, show_ghi, show_gfsi, show_technoserve_new)
    /\ reruns' = reruns + 1

\* Variant of SetGrfcYear in which the rerun re-creates the sidebar
\* filters with their defaults.
SetGrfcYear_resetting(yr) ==
    /\ CanRerun
    /\ yr # selected_grfc_year
    /\ Script(DefaultRegions(data), DefaultMinIndex, DefaultMaxIndex,
              DefaultMaxCost, grfc_data_type,
              yr, show_ghi, show_gfsi, show_technoserve_new)
    /\ reruns' = reruns + 1

SetGrfcYear(yr) ==
    /\ CanRerun
    /\ yr # selected_grfc_year
    /\ Script(regions, min_index, max_index, max_cost, grfc_data_type,
              yr, show_ghi, show_gfsi, show_technoserve_new)
    /\ reruns' = reruns + 1

ToggleGhi ==
    /\ CanRerun
    /\ Script(regions, min_index, max_index, max_cost, grfc_data_type,
              selected_grfc_year, ~show_ghi, show_gfsi, show_technoserve_new)
    /\ reruns' = reruns + 1

ToggleGfsi ==
    /\ CanRerun
    /\ Script(regions, min_index, max_index, max_cost, grfc_data_type,
              selected_grfc_year, show_ghi, ~show_gfsi, show_technoserve_new)
    /\ reruns' = reruns + 1

ToggleTechnoserve ==
    /\ CanRerun
    /\ Script(regions, min_index, max_index, max_cost, grfc_data_type,
              selected_grfc_year, show_ghi, show_gfsi, ~show_technoserve_new)
    /\ reruns' = reruns + 1

Next ==
    \/ FirstLoad
    \/ \E regs \in SUBSET RegionOptions(data) : SetRegions(regs)
    \/ \E lo \in IndexSliderValues : SetMinIndex(lo)
    \/ \E hi \in IndexSliderValues : SetMaxIndex(hi)
    \/ \E mc \in CostSliderValues : SetMaxCost(mc)
    \/ \E ty \in GrfcDataTypes : SetGrfcDataType(ty)
    \/ \E yr \in YearSliderValues : SetGrfcYear(yr)
    \/ ToggleGhi
    \/ ToggleGfsi
    \/ ToggleTechnoserve

Spec == Init /\ [][Next]_vars

(***************************************************************************)
(* The filter-and-summarize pipeline as the operation of the               *)
(* specification, filter(dataset, criteria) followed by summarize: the     *)
(* script's code of lines 186-251 applied to a Dataset in the sense of the *)
(* specification's data model (any ordered sequence of records, the empty  *)
(* one included) instead of the shipped literal.  The tables below are     *)
(* inputs of that operation, not tables the script builds; they bring ties *)
(* and boundary values the shipped rows lack.  In SpecFn the criteria are  *)
(* values the sidebar widgets can return (min <= max).                     *)
(***************************************************************************)
FnPIValues == {70, 85}
FnCostValues == {40, 70}
FnRegions == {"Asia", "US"}
FnRawRows == [PI : FnPIValues, Cost : FnCostValues, Region : FnRegions]

MkData(raw) ==
    [i \in 1..Len(raw) |->
        Row(i - 1, FoodNames[i], raw[i].PI, raw[i].Cost, raw[i].Region)]

GeneratedDatasets ==
    {MkData(raw) : raw \in UNION {[1..n -> FnRawRows] : n \in 0..MaxLen}}

\* The five-record sample of the specification: the first five shipped rows.
SampleData == SubSeq(ShippedData, 1, 5)

Datasets == GeneratedDatasets \cup {ShippedData, SampleData}

FnIndexBounds == {70, 85, 100}
FnCostCeilings == {40, 70}

Criteria(regs, lo, hi, mc) ==
    [regions |-> regs, min_index |-> lo, max_index |-> hi, max_cost |-> mc]

ScenarioCriteria == Criteria({"Asia", "US"}, 70, 100, 70)
EmptyScenarioCriteria == Criteria({"Europe"}, 90, 100, 100)

DrawnCriteria ==
    {Criteria(regs, lo, hi, mc) :
        regs \in SUBSET FnRegions, lo \in FnIndexBounds,
        hi \in FnIndexBounds, mc \in FnCostCeilings}

\* Criteria the widgets can return: the range slider never yields min > max.
FnCriteria ==
    {c \in DrawnCriteria : c.min_index <= c.max_index}
    \cup {ScenarioCriteria, EmptyScenarioCriteria}

InitFn ==
    /\ data \in Datasets
    /\ \E c \in FnCriteria :
          /\ regions = c.regions
          /\ min_index = c.min_index
          /\ max_index = c.max_index
          /\ max_cost = c.max_cost
    /\ GlobalMapsDefaults
    /\ NotRendered

NextFn == FirstLoad

SpecFn == InitFn /\ [][NextFn]_vars

(***************************************************************************)
(* The same operation called directly with any FilterCriteria value of the *)
(* specification, inverted ranges included.  No widget of the script       *)
(* returns such a range: these runs show what lines 186-251 do when a      *)
(* caller other than the slider hands them one.                            *)
(***************************************************************************)
InvertedExampleCriteria == Criteria({"Asia", "US"}, 80, 50, 70)

CallCriteria == DrawnCriteria \cup FnCriteria \cup {InvertedExampleCriteria}

InitCall ==
    /\ data \in Datasets
    /\ \E c \in CallCriteria :
          /\ regions = c.regions
          /\ min_index = c.min_index
          /\ max_index = c.max_index
          /\ max_cost = c.max_cost
    /\ GlobalMapsDefaults
    /\ NotRendered

NextCall == FirstLoad

SpecCall == InitCall /\ [][NextCall]_vars

(***************************************************************************)
(* Shared vocabulary of the properties.                                    *)
(***************************************************************************)
Rendered == phase = "rendered"

\* The three predicates of the filter, read off the current criteria.
InRegion(r) == r.Region \in regions
InRange(r) == min_index <= r.PI /\ r.PI <= max_index
WithinCost(r) == r.Cost <= max_cost
Satisfies(r) == InRegion(r) /\ InRange(r) /\ WithinCost(r)

Kept(r) == \E j \in 1..Len(filtered_data) : filtered_data[j] = r

DataRows == {data[i] : i \in 1..Len(data)}
FilteredRows == {filtered_data[j] : j \in 1..Len(filtered_data)}

(***************************************************************************)
(* C1.  The filtered result holds exactly the rows of the table that       *)
(* satisfy all three predicates (region selected, min <= Protein Index <=  *)
(* max, cost <= max cost, all bounds inclusive): every kept row satisfies  *)
(* all three, every dropped row fails one, and an empty region selection   *)
(* gives an empty result.                                                  *)
(***************************************************************************)
C1_FilterExact ==
    Rendered =>
        /\ \A r \in FilteredRows : r \in DataRows /\ Satisfies(r)
        /\ \A r \in DataRows : ~Kept(r) => ~Satisfies(r)
        /\ regions = {} => filtered_data = <<>>

\* A run that keeps a row sitting exactly on the upper index bound and on
\* the cost ceiling, keeps a row on the lower index bound, and drops a row.
C1_Witness ==
    /\ Rendered
    /\ \E r \in FilteredRows : r.PI = max_index /\ r.Cost = max_cost
    /\ \E r \in FilteredRows : r.PI = min_index
    /\ \E r \in DataRows : ~Kept(r)

(***************************************************************************)
(* C2.  The filtered result is a subsequence of the table: its rows are    *)
(* rows of the table, each at most once, in the table's relative order.    *)
(***************************************************************************)
C2_Subsequence ==
    Rendered =>
        /\ \A j \in 1..Len(filtered_data) :
              /\ filtered_data[j].idx + 1 \in 1..Len(data)
              /\ filtered_data[j] = data[filtered_data[j].idx + 1]
        /\ \A j, k \in 1..Len(filtered_data) :
              j < k => filtered_data[j].idx < filtered_data[k].idx

\* A run that keeps at least two rows and drops one lying between them.
C2_Witness ==
    /\ Rendered
    /\ Len(filtered_data) >= 2
    /\ \E i \in 1..Len(data) :
          /\ ~Kept(data[i])
          /\ filtered_data[1].idx + 1 < i
          /\ i < filtered_data[Len(filtered_data)].idx + 1

(***************************************************************************)
(* C3.  Whenever the filtered result is empty the insights block shows the *)
(* "no insights" message and the run raises nothing; no run of the script  *)
(* ever raises.                                                            *)
(***************************************************************************)
C3_EmptySafe ==
    Rendered =>
        /\ error = "none"
        /\ empty(filtered_data) => insights = [kind |-> "info"]

\* The user has filtered the shipped table down to nothing.
C3_Witness ==
    /\ Rendered
    /\ reruns > 0
    /\ empty(filtered_data)
    /\ data # <<>>

C5_Extrema ==
    (Rendered /\ ~empty(filtered_data)) =>
        LET lo == insights.most_cost_effective
            hi == insights.highest_protein_index
        IN  /\ lo \in FilteredRows
            /\ \A r \in FilteredRows : lo.Cost <= r.Cost
            /\ \A r \in FilteredRows : r.Cost = lo.Cost => lo.idx <= r.idx
            /\ hi \in FilteredRows
            /\ \A r \in FilteredRows : r.PI <= hi.PI
            /\ \A r \in FilteredRows : r.PI = hi.PI => hi.idx <= r.idx

\* A filtered result in which two rows tie for the minimum cost and two
\* rows tie for the maximum Protein Index.
C5_Witness ==
    /\ Rendered
    /\ ~empty(filtered_data)
    /\ \E r \in FilteredRows :
          r # insights.most_cost_effective
          /\ r.Cost = insights.most_cost_effective.Cost
    /\ \E r \in FilteredRows :
          r # insights.highest_protein_index
          /\ r.PI = insights.highest_protein_index.PI

(***************************************************************************)
(* C6 as stated: on first load the default criteria cover every region     *)
(* and the whole Protein Index and cost range of the loaded table, so the  *)
(* initial filtered view is the whole table.                               *)
(***************************************************************************)
C6_InitialViewComplete ==
    (Rendered /\ reruns = 0) =>
        /\ regions = RegionOptions(data)
        /\ \A r \in DataRows : InRange(r) /\ WithinCost(r)
        /\ filtered_data = data

(***************************************************************************)
(* C7.  For a non-empty filtered result the summary reports count = number *)
(* of filtered rows, total = number of rows of the unfiltered table, and   *)
(* the two means as sum over the filtered rows divided by count.  On the   *)
(* five-record sample with regions {Asia, US}, range (70, 100) and ceiling *)
(* 0.70 the result is Lentils, Chicken, Soy, Egg with count 4, total 5,    *)
(* mean index 85.75, mean cost 0.5125, best value Lentils, best index Soy. *)
(***************************************************************************)
C7_Summary ==
    (Rendered /\ ~empty(filtered_data)) =>
        LET n == Len(filtered_data)
            sumPI[k \in 0..n] ==
                IF k = 0 THEN 0 ELSE sumPI[k - 1] + filtered_data[k].PI
            sumCost[k \in 0..n] ==
                IF k = 0 THEN 0 ELSE sumCost[k - 1] + filtered_data[k].Cost
        IN  /\ insights.kind = "summary"
            /\ insights.displayed_foods = n
            /\ insights.total_foods = Len(data)
            /\ insights.mean_pi = [num |-> sumPI[n], den |-> n]
            /\ insights.mean_cost = [num |-> sumCost[n], den |-> n]
            /\ (data = SampleData
                 /\ Criteria(regions, min_index, max_index, max_cost)
                        = ScenarioCriteria) =>
                  /\ [k \in 1..n |-> filtered_data[k].Food]
                        = <<"Lentils", "Chicken", "Soy", "Egg">>
                  /\ insights.displayed_foods = 4
                  /\ insights.total_foods = 5
                  /\ insights.mean_pi.num * 100 = 8575 * insights.mean_pi.den
                  /\ insights.mean_cost.num * 100
                        = 5125 * insights.mean_cost.den
                  /\ insights.most_cost_effective.Food = "Lentils"
                  /\ insights.highest_protein_index.Food = "Soy"

\* The sample scenario has been run and rendered its summary.
C7_Witness ==
    /\ Rendered
    /\ data = SampleData
    /\ Criteria(regions, min_index, max_index, max_cost) = ScenarioCriteria
    /\ insights.kind = "summary"
    /\ Len(filtered_data) < Len(data)

(***************************************************************************)
(* C8.  After any sequence of reruns the table is the shipped table and    *)
(* the displayed result and summary are the filter and summary of that     *)
(* table under the current criteria alone.                                 *)
(***************************************************************************)
C8_HistoryIndependent ==
    Rendered =>
        /\ data = ShippedData
        /\ filtered_data = SelectSeq(ShippedData, Satisfies)
        /\ insights = KeyInsights(ShippedData, SelectSeq(ShippedData, Satisfies))
        /\ table_view = TableView(SelectSeq(ShippedData, Satisfies))
        /\ chart_view = ChartView(SelectSeq(ShippedData, Satisfies))

\* Several reruns later, with criteria that keep a row an earlier,
\* narrower setting of the same session could have dropped.
C8_Witness ==
    /\ Rendered
    /\ reruns >= 2
    /\ regions = DefaultRegions(data)
    /\ max_cost > DefaultMaxCost
    /\ \E r \in FilteredRows : r.Cost > DefaultMaxCost

(***************************************************************************)
(* Outcome classes used by C9.                                             *)
(***************************************************************************)
RenderedOutcome == <<table_view, chart_view, insights.kind, error>>

OutcomeOf(d, c) ==
    LET fd == FilterData(d, c.regions, c.min_index, c.max_index, c.max_cost)
        ins == KeyInsights(d, fd)
    IN  <<TableView(fd), ChartView(fd), ins.kind, ScriptError(ins)>>

CaseOf(d, c) ==
    IF c.min_index > c.max_index THEN "criteria invalid"
    ELSE IF empty(d) THEN "dataset empty"
    ELSE IF empty(FilterData(d, c.regions, c.min_index, c.max_index, c.max_cost))
         THEN "filtered-to-empty"
    ELSE "results"

CurrentCriteria == Criteria(regions, min_index, max_index, max_cost)

\* One reference input per case.
ReferenceInputs ==
    { [d |-> ShippedData, c |-> InvertedExampleCriteria],
      [d |-> <<>>,        c |-> ScenarioCriteria],
      [d |-> ShippedData, c |-> EmptyScenarioCriteria] }

ProteinControls == <<regions, min_index, max_index, max_cost>>
MapControls == <<grfc_data_type, selected_grfc_year,
                 show_ghi, show_gfsi, show_technoserve_new>>
ProteinView == <<filtered_data, table_view, chart_view, insights>>
MapView == <<filtered_grfc_data, grfc_view, static_maps>>

C10_IndependentViews ==
    [][ Rendered =>
          /\ MapControls' # MapControls =>
                (ProteinControls' = ProteinControls /\ ProteinView' = ProteinView)
          /\ ProteinControls' # ProteinControls =>
                (MapControls' = MapControls /\ MapView' = MapView) ]_vars

\* Both sides have been moved away from their defaults in one session.
C10_Witness ==
    /\ Rendered
    /\ selected_grfc_year # max_grfc_year
    /\ show_ghi
    /\ max_cost # DefaultMaxCost
    /\ Len(filtered_data) # Len(FilterData(data, DefaultRegions(data),
                DefaultMinIndex, DefaultMaxIndex, DefaultMaxCost))

(***************************************************************************)
(* C11.  The year slider ranges over [min, max] of the union of the years  *)
(* of the AFI and malnutrition tables (2016..2023) and starts at the max   *)
(* year.  In every rendered state the mapped rows are exactly the rows of  *)
(* the table chosen by the data-type radio (AFI table for "Acute Food      *)
(* Insecurity", malnutrition table otherwise) whose Year is the selected   *)
(* year; the choropleth is drawn exactly when that row set is non-empty    *)
(* and the "No GRFC data available" message is shown otherwise; with the   *)
(* shipped tables no selectable year gives the message.                    *)
(***************************************************************************)
TableYears ==
    {grfc_afi_data[i].Year : i \in 1..16} \cup {grfc_myu_data[i].Year : i \in 1..16}

ChosenTable ==
    IF grfc_data_type = "Acute Food Insecurity (Phase 3-5 %)"
    THEN grfc_afi_data ELSE grfc_myu_data

RowsOfSelectedYear ==
    {ChosenTable[i] : i \in {k \in 1..16 : ChosenTable[k].Year = selected_grfc_year}}

C11_GrfcMap ==
    Rendered =>
        /\ YearSliderValues = 2016..2023
        /\ \A y \in TableYears : y \in YearSliderValues
        /\ \E y \in TableYears : \A z \in YearSliderValues : y <= z
        /\ \E y \in TableYears : \A z \in YearSliderValues : z <= y
        /\ selected_grfc_year \in YearSliderValues
        /\ reruns = 0 => selected_grfc_year = 2023
        /\ {filtered_grfc_data[j] : j \in 1..Len(filtered_grfc_data)}
              = RowsOfSelectedYear
        /\ Len(filtered_grfc_data) = Cardinality(RowsOfSelectedYear)
        /\ \A j, k \in 1..Len(filtered_grfc_data) :
              j < k => filtered_grfc_data[j].idx < filtered_grfc_data[k].idx
        /\ grfc_view.kind = "choropleth" <=> RowsOfSelectedYear # {}
        /\ grfc_view.kind = "info" <=> RowsOfSelectedYear = {}
        /\ grfc_view.year = selected_grfc_year
        /\ grfc_view.kind # "info"
        /\ \A ty \in GrfcDataTypes :
              GrfcView(ty, min_grfc_year - 1).kind = "info"

\* The malnutrition map of the earliest year has been drawn after the user
\* moved both map controls away from their defaults.
C11_Witness ==
    /\ Rendered
    /\ grfc_data_type = TypeGAM
    /\ selected_grfc_year = min_grfc_year
    /\ grfc_view.kind = "choropleth"
    /\ Len(filtered_grfc_data) = 2
    /\ \A j \in 1..Len(filtered_grfc_data) : filtered_grfc_data[j].GAM > 0

====
